---- MODULE Spec2Model ----
(***************************************************************************)
(* Language Caption Player backend: the streaming HTTP service of          *)
(* backend/server.py with its three model handles (backend/asr.py,         *)
(* backend/translator.py).                                                 *)
(*                                                                         *)
(* A request is one sequential thread of control: its async generator      *)
(* runs on the event loop, and each `await loop.run_in_executor(...)`      *)
(* hands the control to a pool thread and back.  Several requests          *)
(* interleave at every yield, at every await and, inside the pool          *)
(* threads, between any two statements that touch a shared handle.         *)
(* A client that closes a stream is seen by the generator at the yield     *)
(* it is suspended at (GeneratorExit is thrown there, so only the          *)
(* finally blocks enclosing that yield run).                               *)
(***************************************************************************)
EXTENDS Integers, Sequences, FiniteSets, TLC

\* ---------------------------------------------------------------- bounds
MaxChunks == 2      \* chunks of one transcription (asr.py:176)
MaxSegs   == 2      \* segments of one subtitle file (server.py:213)
MaxTrack  == 7      \* segments of the subtitle file of a translation followed
                    \* on its own (more than CONTEXT_WINDOW of them)
MaxSeconds == 185   \* whole seconds of an audio buffer (asr.py:164)
MaxExtra  == 2      \* samples of the buffer past its last whole second
MaxItems  == 3      \* word items of one aligned chunk (asr.py:199)
MaxBudget == 3      \* max_words, besides the default 12
Precision == 8      \* bits of the significand of a float (a Python float
                    \* has 53): integers below 2^Precision are exact
MaxWords  == 4      \* words of the text of a segment handed to the splitter

\* Two request slots: a slot that ended can be started again.
Reqs == {"r1", "r2"}

\* ---------------------------------------------------------------- values
None == "None"

\* translator.py:4
MODEL_ID == "Qwen/Qwen3-1.7B"

\* server.py:93-97, ids of TRANSLATOR_MODELS: the default one and another one
TRANSLATOR_MODELS == {"Qwen/Qwen3-1.7B", "Qwen/Qwen3-4B"}

\* an id that is not in TRANSLATOR_MODELS
InvalidId == "other"

\* asr.py:10, the instance held by asr.model once loaded
ASR_MODEL_ID == "Qwen/Qwen3-ASR-1.7B"

VARIABLES
    asr,                \* server.py:36   [model]
    translator,         \* server.py:37   [model_id, model, tokenizer]
    translator_lookup,  \* server.py:38   [model_id, model, tokenizer]
    rq,                 \* the request slots
    settings,           \* server.py:20  settings.json [translator_model, lookup_model]
    running,            \* FALSE after the lifespan's shutdown half ran
    call,               \* the last direct call on a Translator handle:
                        \* [op, on, effects], effects its loads and unloads
    fn                  \* a function of asr.py / subtitle.py evaluated on its
                        \* own: [op, its arguments, its locals, its result]

vars == <<asr, translator, translator_lookup, rq, settings, running, call, fn>>

\* ------------------------------------------------- Translator (translator.py)
\* A call's result: the handle after it and the loads / unloads it performed.
Res(h, effects) == [h |-> h, fx |-> effects]

\* translator.py:25-28
Translator_init == [model_id |-> MODEL_ID, model |-> None, tokenizer |-> None]

\* translator.py:31   self.tokenizer = AutoTokenizer.from_pretrained(self.model_id)
Translator_load_tokenizer(h, ok) ==
    IF ok THEN [h EXCEPT !.tokenizer = h.model_id] ELSE h

\* translator.py:32-36   self.model = AutoModelForCausalLM.from_pretrained(...)
Translator_load_model(h, ok) ==
    IF ok THEN [h EXCEPT !.model = h.model_id] ELSE h

\* translator.py:30-37; outcome: "ok", "tokenizer_fails", "model_fails"
Translator_load(h, outcome) ==
    IF outcome = "tokenizer_fails"
    THEN Res(Translator_load_tokenizer(h, FALSE), <<"load">>)
    ELSE Res(Translator_load_model(Translator_load_tokenizer(h, TRUE),
                                   outcome = "ok"), <<"load">>)

\* translator.py:39-52
Translator_unload(h) ==
    IF h.model # None
    THEN Res([h EXCEPT !.model = None, !.tokenizer = None], <<"unload">>)
    ELSE Res(h, <<>>)

\* Mutant: the id is switched without releasing the loaded model.
Translator_set_model_id_KeepsModel(h, model_id) ==
    IF h.model_id # model_id
    THEN Res([h EXCEPT !.model_id = model_id], <<>>)
    ELSE Res(h, <<>>)

\* translator.py:54-59
Translator_set_model_id(h, model_id) ==
    IF h.model_id # model_id
    THEN LET u == Translator_unload(h)
         IN  Res([u.h EXCEPT !.model_id = model_id], u.fx)
    ELSE Res(h, <<>>)

\* translator.py:61-64
Translator_ensure_loaded(h, outcome) ==
    IF h.model = None THEN Translator_load(h, outcome) ELSE Res(h, <<>>)

\* ------------------------------------------------- ASRProcessor (asr.py)
\* asr.py:54-55
ASR_init == [model |-> None]

\* asr.py:57-67
ASR_load(h, ok) == IF ok THEN [h EXCEPT !.model = ASR_MODEL_ID] ELSE h

\* asr.py:69-76
ASR_unload(h) == IF h.model # None THEN [h EXCEPT !.model = None] ELSE h

\* ------------------------------------------------- requests
Ev(status, k) == [status |-> status, n |-> k]

\* server.py:229,248   {"status": "translating", "current": ..., "total": total}
Progress(current, total) ==
    [status |-> "translating", n |-> current, total |-> total]

IdleReq ==
    [kind |-> "none", pc |-> "idle", http |-> 0,
     n |-> 0, sliver |-> FALSE, i |-> 0,
     events |-> <<>>, calls |-> {}, got |-> {}, failedAt |-> -1,
     loaded |-> FALSE, loadFailed |-> FALSE, unloaded |-> FALSE, reloads |-> 0, by |-> {},
     tmp |-> FALSE, saved |-> FALSE, closed |-> FALSE, raised |-> FALSE,
     input |-> "none", segments |-> <<>>, context_history |-> <<>>,
     ctx |-> <<>>, log |-> <<>>, translated |-> <<>>]

Emit(r, e) == [r EXCEPT !.events = Append(@, e)]

At(r, pcs) == rq[r].pc \in pcs

Fresh(kind) == [IdleReq EXCEPT !.kind = kind]

\* ------------------------------------------------- yields
\* The yields of the two generators (server.py:166,170,173,179,186,192 and
\* server.py:222,226,229,243,248,263).
Yields ==
    {"t_y_loading", "t_y_error_load", "t_y_extracting", "t_y_error",
     "t_y_saving", "t_y_done",
     "l_y_loading", "l_y_error_load", "l_y_translating0", "l_y_error",
     "l_y_translating", "l_y_done"}

\* Mutant: no return after the error event of the segment loop.
AfterYield_NoReturn(pc) ==
    CASE pc = "t_y_loading"      -> "t_load"
      [] pc = "t_y_error_load"   -> "end"
      [] pc = "t_y_extracting"   -> "t_extract"
      [] pc = "t_y_error"        -> "t_unload_exit"
      [] pc = "t_y_saving"       -> "t_save"
      [] pc = "t_y_done"         -> "end"
      [] pc = "l_y_loading"      -> "l_load_tok"
      [] pc = "l_y_error_load"   -> "end"
      [] pc = "l_y_translating0" -> "l_seg"
      [] pc = "l_y_error"        -> "l_seg"
      [] pc = "l_y_translating"  -> "l_seg"
      [] pc = "l_y_done"         -> "end"

\* Where the generator goes on when the consumer asks for the next event.
AfterYield(pc) ==
    CASE pc = "t_y_loading"      -> "t_load"          \* server.py:168
      [] pc = "t_y_error_load"   -> "end"             \* server.py:171
      [] pc = "t_y_extracting"   -> "t_extract"       \* server.py:174-177
      [] pc = "t_y_error"        -> "t_unload_exit"   \* server.py:180-183
      [] pc = "t_y_saving"       -> "t_save"          \* server.py:188-190
      [] pc = "t_y_done"         -> "end"
      [] pc = "l_y_loading"      -> "l_load_tok"      \* server.py:224
      [] pc = "l_y_error_load"   -> "end"             \* server.py:227
      [] pc = "l_y_translating0" -> "l_seg"           \* server.py:235-236
      [] pc = "l_y_error"        -> "l_unload_exit"   \* server.py:244,249-251
      [] pc = "l_y_translating"  -> "l_seg"           \* server.py:236
      [] pc = "l_y_done"         -> "end"

\* Where GeneratorExit, thrown at the yield, takes the generator: into the
\* finally block when the yield is inside the try (server.py:174-183,
\* 235-251), out of the generator otherwise.
OnClose(pc) ==
    CASE pc \in {"t_y_error"}                    -> "t_unload_exit"
      [] pc \in {"l_y_error", "l_y_translating"} -> "l_unload_exit"
      [] OTHER                                   -> "end"

\* The consumer (StreamingResponse) asks the generator for its next event.
Resume(r) ==
    /\ running
    /\ At(r, Yields)
    /\ rq' = [rq EXCEPT ![r].pc = AfterYield(rq[r].pc)]
    /\ UNCHANGED <<asr, translator, translator_lookup, settings, running, call, fn>>

\* The client closes the stream while the generator is suspended at a yield.
ClientClose(r) ==
    /\ running
    /\ At(r, Yields)
    /\ rq' = [rq EXCEPT ![r].pc = OnClose(rq[r].pc), ![r].closed = TRUE]
    /\ UNCHANGED <<asr, translator, translator_lookup, settings, running, call, fn>>

\* ------------------------------------------------- POST /transcribe
\* server.py:145-159, 194
StartTranscribe(r, exists, n, sliver) ==
    /\ running
    /\ At(r, {"idle", "end"})
    /\ rq' = [rq EXCEPT ![r] =
                IF exists
                THEN [Fresh("transcribe") EXCEPT !.pc = "t_check", !.http = 200,
                                                 !.input = "ok",
                                                 !.n = n, !.sliver = sliver]
                ELSE [Fresh("transcribe") EXCEPT !.pc = "end", !.http = 404,
                                                 !.input = "missing"]]
    /\ UNCHANGED <<asr, translator, translator_lookup, settings, running, call, fn>>

\* server.py:165-166, 173
TranscribeCheck(r) ==
    /\ running
    /\ At(r, {"t_check"})
    /\ rq' = [rq EXCEPT ![r] =
                IF asr.model = None
                THEN [Emit(@, Ev("loading_model", 0)) EXCEPT !.pc = "t_y_loading"]
                ELSE [Emit(@, Ev("extracting_audio", 0)) EXCEPT !.pc = "t_y_extracting"]]
    /\ UNCHANGED <<asr, translator, translator_lookup, settings, running, call, fn>>

\* server.py:167-173 with asr.py:57-67
TranscribeLoad(r, ok) ==
    /\ running
    /\ At(r, {"t_load"})
    /\ asr' = ASR_load(asr, ok)
    /\ rq' = [rq EXCEPT ![r] =
                IF ok
                THEN [Emit(@, Ev("extracting_audio", 0))
                        EXCEPT !.pc = "t_y_extracting", !.loaded = TRUE]
                ELSE [Emit(@, Ev("error", 0))
                        EXCEPT !.pc = "t_y_error_load", !.loadFailed = TRUE]]
    /\ UNCHANGED <<translator, translator_lookup, settings, running, call, fn>>

\* asr.py:162 with asr.py:78-88; a failing demuxer run raises out of
\* asr.transcribe into server.py:178-179
ExtractAudio(r, ok) ==
    /\ running
    /\ At(r, {"t_extract"})
    /\ rq' = [rq EXCEPT ![r] =
                IF ok
                THEN [@ EXCEPT !.pc = "t_read", !.tmp = TRUE]
                ELSE [Emit(@, Ev("error", 0)) EXCEPT !.pc = "t_y_error", !.tmp = TRUE]]
    /\ UNCHANGED <<asr, translator, translator_lookup, settings, running, call, fn>>

\* asr.py:163-174
ReadAudio(r, ok) ==
    /\ running
    /\ At(r, {"t_read"})
    /\ rq' = [rq EXCEPT ![r] =
                IF ok
                THEN [@ EXCEPT !.pc = "t_chunk", !.i = 0, !.tmp = FALSE]
                ELSE [Emit(@, Ev("error", 0)) EXCEPT !.pc = "t_y_error", !.tmp = FALSE]]
    /\ UNCHANGED <<asr, translator, translator_lookup, settings, running, call, fn>>

\* Mutant: a failing chunk is logged and skipped, the loop goes on.
ChunkStep_SkipsFailedChunk(q, model, outcome) ==
    IF q.sliver /\ q.i = q.n - 1
    THEN [q EXCEPT !.i = @ + 1]
    ELSE IF model = None \/ outcome = "fail"
    THEN [q EXCEPT !.i = @ + 1, !.failedAt = q.i,
                   !.calls = IF model = None THEN @ ELSE @ \cup {q.i}]
    ELSE IF outcome = "empty"
    THEN [q EXCEPT !.i = @ + 1, !.calls = @ \cup {q.i}]
    ELSE [q EXCEPT !.i = @ + 1, !.calls = @ \cup {q.i}, !.got = @ \cup {q.i}]

\* asr.py:176-214, one pass of the loop body for chunk i; outcome is what
\* self.model.transcribe does: "ok" (segments), "empty" (no results), "fail".
\* An exception leaves asr.transcribe and is caught at server.py:178-179.
ChunkStep(q, model, outcome) ==
    IF q.sliver /\ q.i = q.n - 1
    THEN [q EXCEPT !.i = @ + 1]                                  \* asr.py:180-181
    ELSE IF model = None \/ outcome = "fail"
    THEN [Emit(q, Ev("error", 0)) EXCEPT                         \* asr.py:186
            !.pc = "t_y_error", !.failedAt = q.i,
            !.calls = IF model = None THEN @ ELSE @ \cup {q.i}]
    ELSE IF outcome = "empty"
    THEN [q EXCEPT !.i = @ + 1, !.calls = @ \cup {q.i}]          \* asr.py:192-194
    ELSE [q EXCEPT !.i = @ + 1, !.calls = @ \cup {q.i},          \* asr.py:196-214
                   !.got = @ \cup {q.i}]

TranscribeChunk(r, outcome) ==
    /\ running
    /\ At(r, {"t_chunk"})
    /\ rq[r].i < rq[r].n
    /\ rq' = [rq EXCEPT ![r] = ChunkStep(@, asr.model, outcome)]
    /\ UNCHANGED <<asr, translator, translator_lookup, settings, running, call, fn>>

\* asr.py:216: the loop is over, asr.transcribe returns (server.py:175-177)
TranscribeReturn(r) ==
    /\ running
    /\ At(r, {"t_chunk"})
    /\ rq[r].i = rq[r].n
    /\ rq' = [rq EXCEPT ![r].pc = "t_unload"]
    /\ UNCHANGED <<asr, translator, translator_lookup, settings, running, call, fn>>

\* Mutant: the error path falls through to the save after the finally block.
TranscribeUnload_FallsThrough(r) ==
    /\ running
    /\ At(r, {"t_unload", "t_unload_exit"})
    /\ asr' = ASR_unload(asr)
    /\ rq' = [rq EXCEPT ![r] =
                [Emit(@, Ev("saving_srt", Cardinality(@.got)))
                   EXCEPT !.pc = "t_y_saving", !.unloaded = TRUE]]
    /\ UNCHANGED <<translator, translator_lookup, settings, running, call, fn>>

\* server.py:181-186: the finally block, then (when the try block fell
\* through) split_long_segments and the saving_srt event
TranscribeUnload(r) ==
    /\ running
    /\ At(r, {"t_unload", "t_unload_exit"})
    /\ asr' = ASR_unload(asr)
    /\ rq' = [rq EXCEPT ![r] =
                IF @.pc = "t_unload"
                THEN [Emit(@, Ev("saving_srt", Cardinality(@.got)))
                        EXCEPT !.pc = "t_y_saving", !.unloaded = TRUE]
                ELSE [@ EXCEPT !.pc = "end", !.unloaded = TRUE]]
    /\ UNCHANGED <<translator, translator_lookup, settings, running, call, fn>>

\* server.py:188-192 with subtitle.py:55-56; a failing write raises out of
\* the generator
TranscribeSave(r, ok) ==
    /\ running
    /\ At(r, {"t_save"})
    /\ rq' = [rq EXCEPT ![r] =
                IF ok
                THEN [Emit(@, Ev("done", Cardinality(@.got)))
                        EXCEPT !.pc = "t_y_done", !.saved = TRUE]
                ELSE [@ EXCEPT !.pc = "end", !.raised = TRUE]]
    /\ UNCHANGED <<asr, translator, translator_lookup, settings, running, call, fn>>

\* ------------------------------------------------- POST /translate
\* A segment of a subtitle file (subtitle.py:43-51): its text and its
\* (start, end) timestamp.  The k-th text of a file is told from the others
\* by its label; the file need not be in time order.
Track(n) ==
    [k \in 1..n |-> [text |-> [lang |-> "src", of |-> k],
                     timestamp |-> <<k - 1, k>>]]

Reversed(segments) ==
    [k \in 1..Len(segments) |-> segments[Len(segments) + 1 - k]]

Tracks(n) == {Track(n), Reversed(Track(n))}

\* translator.py:66-106: the Japanese text the model returns for a text
Translation(text) == [text EXCEPT !.lang = "ja"]

\* server.py:232
CONTEXT_WINDOW == 5

\* Mutant: the window keeps the oldest pairs.
ContextWindow_Oldest(context_history) ==
    IF Len(context_history) <= CONTEXT_WINDOW
    THEN context_history
    ELSE SubSeq(context_history, 1, CONTEXT_WINDOW)

\* server.py:237   ctx = context_history[-CONTEXT_WINDOW:] or None
\* (no pair is passed as None, which translate() reads like an empty list,
\* translator.py:78: the empty sequence stands for both)
ContextWindow(context_history) ==
    IF Len(context_history) <= CONTEXT_WINDOW
    THEN context_history
    ELSE SubSeq(context_history, Len(context_history) - CONTEXT_WINDOW + 1,
                Len(context_history))

\* Mutant: the source text is kept in the output segment.
WithText_KeepsSource(seg, jp_text) == seg

\* server.py:247   {**seg, "text": jp_text}
WithText(seg, jp_text) == [seg EXCEPT !.text = jp_text]

\* Mutant: the subtitle file is read inside the stream, after the load.
StartTranslate_ReadsInStream(r, input, segments) ==
    /\ running
    /\ At(r, {"idle", "end"})
    /\ rq' = [rq EXCEPT ![r] =
                [Fresh("translate") EXCEPT !.pc = "l_check", !.http = 200,
                                           !.input = input, !.n = 0]]
    /\ UNCHANGED <<asr, translator, translator_lookup, settings, running, call, fn>>

\* server.py:198-214, 265; input: "ok", "missing" (404 at server.py:210-211)
\* or "malformed" (srt.parse raises at server.py:213, before the stream)
StartTranslate(r, input, segments) ==
    /\ running
    /\ At(r, {"idle", "end"})
    /\ rq' = [rq EXCEPT ![r] =
                CASE input = "ok" ->
                       [Fresh("translate") EXCEPT !.pc = "l_check", !.http = 200,
                                                  !.input = input,
                                                  !.segments = segments,
                                                  !.n = Len(segments)]
                  [] input = "missing" ->
                       [Fresh("translate") EXCEPT !.pc = "end", !.http = 404,
                                                  !.input = input]
                  [] input = "malformed" ->
                       [Fresh("translate") EXCEPT !.pc = "end", !.http = 500,
                                                  !.input = input,
                                                  !.raised = TRUE]]
    /\ UNCHANGED <<asr, translator, translator_lookup, settings, running, call, fn>>

\* server.py:221-222, 229
TranslateCheck(r) ==
    /\ running
    /\ At(r, {"l_check"})
    /\ rq' = [rq EXCEPT ![r] =
                IF translator.model = None
                THEN [Emit(@, Ev("loading_model", 0)) EXCEPT !.pc = "l_y_loading"]
                ELSE [Emit(@, Progress(0, @.n)) EXCEPT !.pc = "l_y_translating0"]]
    /\ UNCHANGED <<asr, translator, translator_lookup, settings, running, call, fn>>

\* What a failure inside translator.load / translator.translate becomes:
\* the error event of server.py:225-226 (load of the request) or of
\* server.py:242-243 (inside the segment loop).
LoadError(q) ==
    [Emit(q, Ev("error", 0)) EXCEPT !.pc = "l_y_error_load", !.loadFailed = TRUE]

SegmentError(q) ==
    [Emit(q, Ev("error", 0)) EXCEPT !.pc = "l_y_error", !.failedAt = q.i]

\* translator.py:31, as the first half of translator.load called at
\* server.py:224 (l_load_tok) or by _ensure_loaded inside translate (l_ens_tok)
TranslatorLoadTokenizer(r, ok) ==
    /\ running
    /\ At(r, {"l_load_tok", "l_ens_tok"})
    /\ translator' = Translator_load_tokenizer(translator, ok)
    /\ rq' = [rq EXCEPT ![r] =
                IF ok
                THEN [@ EXCEPT !.pc = IF @ = "l_load_tok" THEN "l_load_model"
                                                          ELSE "l_ens_model"]
                ELSE IF @.pc = "l_load_tok" THEN LoadError(@) ELSE SegmentError(@)]
    /\ UNCHANGED <<asr, translator_lookup, settings, running, call, fn>>

\* translator.py:32-37, the second half of translator.load
TranslatorLoadModel(r, ok) ==
    /\ running
    /\ At(r, {"l_load_model", "l_ens_model"})
    /\ translator' = Translator_load_model(translator, ok)
    /\ rq' = [rq EXCEPT ![r] =
                IF ok
                THEN IF @.pc = "l_load_model"
                     THEN [Emit(@, Progress(0, @.n))
                             EXCEPT !.pc = "l_y_translating0", !.loaded = TRUE]
                     ELSE [@ EXCEPT !.pc = "l_infer", !.reloads = @ + 1]
                ELSE IF @.pc = "l_load_model" THEN LoadError(@) ELSE SegmentError(@)]
    /\ UNCHANGED <<asr, translator_lookup, settings, running, call, fn>>

\* server.py:236-241 with translator.py:61-64,74: the loop head; for segment i
\* translator.translate is called and starts with _ensure_loaded
TranslateSegment(r) ==
    /\ running
    /\ At(r, {"l_seg"})
    /\ rq' = [rq EXCEPT ![r] =
                IF @.i < @.n
                THEN [@ EXCEPT !.calls = @ \cup {rq[r].i},
                               !.ctx = ContextWindow(rq[r].context_history),
                               !.log = Append(@, rq[r].segments[rq[r].i + 1].text),
                               !.pc = IF translator.model = None THEN "l_ens_tok"
                                                                 ELSE "l_infer"]
                ELSE [@ EXCEPT !.pc = "l_unload"]]
    /\ UNCHANGED <<asr, translator, translator_lookup, settings, running, call, fn>>

\* Mutant: the progress event carries the index of the segment.
InferStep_CountsFromIndex(q, h, ok) ==
    IF ok /\ h.model # None /\ h.tokenizer # None
    THEN LET seg     == q.segments[q.i + 1]
             jp_text == Translation(seg.text)
         IN  [Emit(q, Progress(q.i, q.n))
                EXCEPT !.pc = "l_y_translating", !.i = @ + 1, !.got = @ \cup {q.i},
                       !.by = @ \cup {h.model},
                       !.context_history = Append(@, <<seg.text, jp_text>>),
                       !.translated = Append(@, WithText(seg, jp_text))]
    ELSE SegmentError(q)

\* translator.py:75-106 and server.py:242-248; the call fails when the model
\* raises, or when the handle was unloaded under it (self.tokenizer / self.model
\* is None)
InferStep(q, h, ok) ==
    IF ok /\ h.model # None /\ h.tokenizer # None
    THEN LET seg     == q.segments[q.i + 1]
             jp_text == Translation(seg.text)
         IN  [Emit(q, Progress(q.i + 1, q.n))
                EXCEPT !.pc = "l_y_translating", !.i = @ + 1, !.got = @ \cup {q.i},
                       !.by = @ \cup {h.model},
                       !.context_history = Append(@, <<seg.text, jp_text>>),
                       !.translated = Append(@, WithText(seg, jp_text))]
    ELSE SegmentError(q)

TranslateInfer(r, ok) ==
    /\ running
    /\ At(r, {"l_infer"})
    /\ rq' = [rq EXCEPT ![r] = InferStep(@, translator, ok)]
    /\ UNCHANGED <<asr, translator, translator_lookup, settings, running, call, fn>>

\* Mutant: the translator is kept loaded after the segment loop.
TranslateUnload_KeepsLoaded(r) ==
    /\ running
    /\ At(r, {"l_unload", "l_unload_exit"})
    /\ rq' = [rq EXCEPT ![r].pc = IF @ = "l_unload" THEN "l_save" ELSE "end",
                         ![r].unloaded = TRUE]
    /\ UNCHANGED <<asr, translator, translator_lookup, settings, running, call, fn>>

\* server.py:249-251: the finally block of the segment loop
TranslateUnload(r) ==
    /\ running
    /\ At(r, {"l_unload", "l_unload_exit"})
    /\ translator' = Translator_unload(translator).h
    /\ rq' = [rq EXCEPT ![r].pc = IF @ = "l_unload" THEN "l_save" ELSE "end",
                         ![r].unloaded = TRUE]
    /\ UNCHANGED <<asr, translator_lookup, settings, running, call, fn>>

\* server.py:253-263 with subtitle.py:55-56
TranslateSave(r, ok) ==
    /\ running
    /\ At(r, {"l_save"})
    /\ rq' = [rq EXCEPT ![r] =
                IF ok
                THEN [Emit(@, Ev("done", @.n)) EXCEPT !.pc = "l_y_done", !.saved = TRUE]
                ELSE [@ EXCEPT !.pc = "end", !.raised = TRUE]]
    /\ UNCHANGED <<asr, translator, translator_lookup, settings, running, call, fn>>

\* ------------------------------------------------- POST /models, POST /lookup
Ids == TRANSLATOR_MODELS \cup {InvalidId}

\* server.py:129-133 / 134-138: one field of the request
SetField(h, id) ==
    IF id # None /\ id \in TRANSLATOR_MODELS
    THEN Translator_set_model_id(h, id).h
    ELSE h

\* server.py:30-33, 139-140: what save_settings leaves in settings.json
SavedSettings(old, tr, lk) ==
    [translator_model |-> IF tr # None THEN tr ELSE old.translator_model,
     lookup_model     |-> IF lk # None THEN lk ELSE old.lookup_model]

\* server.py:124-141; an invalid id raises 400 on the spot: before the lookup
\* field is looked at (translator) and before anything is saved (both)
set_models(tr, lk) ==
    /\ running
    /\ translator' = SetField(translator, tr)
    /\ translator_lookup' = IF tr = InvalidId THEN translator_lookup
                                              ELSE SetField(translator_lookup, lk)
    /\ settings' = IF InvalidId \in {tr, lk} THEN settings
                                             ELSE SavedSettings(settings, tr, lk)
    /\ UNCHANGED <<asr, rq, running, call, fn>>

\* Mutant: the lookup is served by the batch translator.
lookup_OnBatchHandle(word, outcome) ==
    /\ running
    /\ translator' =
          IF word = "" THEN translator
          ELSE Translator_ensure_loaded(translator, outcome).h
    /\ UNCHANGED <<asr, translator_lookup, rq, settings, running, call, fn>>

\* server.py:268-284 with translator.py:108-135; outcome is that of the load
\* _ensure_loaded may perform
lookup(word, outcome) ==
    /\ running
    /\ translator_lookup' =
          IF word = "" THEN translator_lookup          \* server.py:278-280
          ELSE Translator_ensure_loaded(translator_lookup, outcome).h
    /\ UNCHANGED <<asr, translator, rq, settings, running, call, fn>>

\* ------------------------------------------------- lifespan
\* server.py:48-53, the part after the yield; the server stops once no
\* request is being served
Shutdown ==
    /\ running
    /\ \A r \in Reqs : At(r, {"idle", "end"})
    /\ asr' = ASR_unload(asr)
    /\ running' = FALSE
    /\ UNCHANGED <<translator, translator_lookup, rq, settings, call, fn>>

\* ------------------------------------------------- the service
LoadOutcomes == {"ok", "tokenizer_fails", "model_fails"}

\* server.py:36-45: the handles are constructed and the model ids of the
\* settings file, when it has them, are restored; a first start has no file
Restored(id) ==
    IF id # None THEN Translator_set_model_id(Translator_init, id).h
                 ELSE Translator_init

Init ==
    /\ settings = [translator_model |-> None, lookup_model |-> None]
    /\ asr = ASR_init
    /\ translator = Restored(settings.translator_model)
    /\ translator_lookup = Restored(settings.lookup_model)
    /\ rq = [r \in Reqs |-> IdleReq]
    /\ running = TRUE
    /\ call = [op |-> "none", on |-> "none", effects |-> <<>>]
    /\ fn = [op |-> "none"]

TranscribeNext(r) ==
    \/ \E n \in 0..MaxChunks, sliver \in BOOLEAN :
          (sliver => n > 0) /\ StartTranscribe(r, TRUE, n, sliver)
    \/ StartTranscribe(r, FALSE, 0, FALSE)
    \/ TranscribeCheck(r)
    \/ \E ok \in BOOLEAN : TranscribeLoad(r, ok)
    \/ \E ok \in BOOLEAN : ExtractAudio(r, ok)
    \/ \E ok \in BOOLEAN : ReadAudio(r, ok)
    \/ \E outcome \in {"ok", "empty", "fail"} : TranscribeChunk(r, outcome)
    \/ TranscribeReturn(r)
    \/ TranscribeUnload(r)
    \/ \E ok \in BOOLEAN : TranscribeSave(r, ok)

TranslateNext(r) ==
    \/ \E n \in 0..MaxSegs : StartTranslate(r, "ok", Track(n))
    \/ \E input \in {"missing", "malformed"} : StartTranslate(r, input, <<>>)
    \/ TranslateCheck(r)
    \/ \E ok \in BOOLEAN : TranslatorLoadTokenizer(r, ok)
    \/ \E ok \in BOOLEAN : TranslatorLoadModel(r, ok)
    \/ TranslateSegment(r)
    \/ \E ok \in BOOLEAN : TranslateInfer(r, ok)
    \/ TranslateUnload(r)
    \/ \E ok \in BOOLEAN : TranslateSave(r, ok)

StreamNext(r) ==
    \/ Resume(r)
    \/ ClientClose(r)

\* The service serving one request at a time, with model switches and
\* dictionary lookups in between its steps.
Solo == {"r1"}

Next ==
    \/ \E r \in Solo : TranscribeNext(r)
    \/ \E r \in Solo : TranslateNext(r)
    \/ \E r \in Solo : StreamNext(r)
    \/ \E tr \in Ids \cup {None}, lk \in Ids \cup {None} : set_models(tr, lk)
    \/ \E outcome \in LoadOutcomes : lookup("word", outcome)
    \/ \E outcome \in LoadOutcomes : lookup("", outcome)
    \/ Shutdown

Spec == Init /\ [][Next]_vars

\* Two /transcribe requests in flight together on the shared ASR handle.
NextOverlap ==
    \/ \E r \in Reqs : TranscribeNext(r)
    \/ \E r \in Reqs : StreamNext(r)
    \/ Shutdown

SpecOverlap == Init /\ [][NextOverlap]_vars

\* One /translate request after the other, on subtitle files longer than the
\* context window.
NextTranslate ==
    \/ \E r \in Solo, n \in 0..MaxTrack :
          \E segments \in Tracks(n) : StartTranslate(r, "ok", segments)
    \/ \E r \in Solo, input \in {"missing", "malformed"} :
          StartTranslate(r, input, <<>>)
    \/ \E r \in Solo : TranslateCheck(r)
    \/ \E r \in Solo, ok \in BOOLEAN : TranslatorLoadTokenizer(r, ok)
    \/ \E r \in Solo, ok \in BOOLEAN : TranslatorLoadModel(r, ok)
    \/ \E r \in Solo : TranslateSegment(r)
    \/ \E r \in Solo, ok \in BOOLEAN : TranslateInfer(r, ok)
    \/ \E r \in Solo : TranslateUnload(r)
    \/ \E r \in Solo, ok \in BOOLEAN : TranslateSave(r, ok)
    \/ \E r \in Solo : StreamNext(r)

SpecTranslate == Init /\ [][NextTranslate]_vars

\* ------------------------------------------------- the Translator class alone
\* Any sequence of load, unload, _ensure_loaded and set_model_id calls on the
\* two Translator objects of server.py:37-38.
Handles == {"translator", "translator_lookup"}

Handle(on) == IF on = "translator" THEN translator ELSE translator_lookup

Called(op, on, res) ==
    /\ translator' = IF on = "translator" THEN res.h ELSE translator
    /\ translator_lookup' = IF on = "translator_lookup" THEN res.h
                                                        ELSE translator_lookup
    /\ call' = [op |-> op, on |-> on, effects |-> res.fx]
    /\ UNCHANGED <<asr, rq, settings, running, fn>>

CallLoad(on, outcome) ==
    Called("load", on, Translator_load(Handle(on), outcome))

CallUnload(on) ==
    Called("unload", on, Translator_unload(Handle(on)))

CallEnsureLoaded(on, outcome) ==
    Called("_ensure_loaded", on, Translator_ensure_loaded(Handle(on), outcome))

CallSetModelId(on, model_id) ==
    Called("set_model_id", on, Translator_set_model_id(Handle(on), model_id))

NextLifecycle ==
    \/ \E on \in Handles, outcome \in LoadOutcomes : CallLoad(on, outcome)
    \/ \E on \in Handles : CallUnload(on)
    \/ \E on \in Handles, outcome \in LoadOutcomes : CallEnsureLoaded(on, outcome)
    \/ \E on \in Handles, model_id \in TRANSLATOR_MODELS : CallSetModelId(on, model_id)

SpecLifecycle == Init /\ [][NextLifecycle]_vars

\* ------------------------------------------------- the chunk loop of asr.py
\* asr.py:16
MAX_ALIGN_SEC == 90

\* Sample rates sf.read may report (asr.py:164); extract_audio asks for 16000
\* (asr.py:84), the small ones put the 0.5 s threshold at 0.5, 1, 1.5 samples
Rates == {1, 2, 3, 16000}

\* asr.py:172   chunk_samples = int(MAX_ALIGN_SEC * sr)
chunk_samples(sr) == MAX_ALIGN_SEC * sr

\* Mutant: a tail shorter than one second is skipped.
Skipped_UnderOneSecond(n_samples, sr) == n_samples < sr

\* asr.py:180   len(chunk) < sr * 0.5
Skipped(n_samples, sr) == 2 * n_samples < sr

\* asr.py:177   data[start_sample : start_sample + chunk_samples]
ChunkLen(data_len, start_sample, sr) ==
    IF start_sample + chunk_samples(sr) <= data_len
    THEN chunk_samples(sr)
    ELSE data_len - start_sample

\* asr.py:164,172-174: the buffer is read, the loop has not begun
InitPlan ==
    /\ settings = [translator_model |-> None, lookup_model |-> None]
    /\ asr = ASR_init
    /\ translator = Translator_init
    /\ translator_lookup = Translator_init
    /\ rq = [r \in Reqs |-> IdleReq]
    /\ running = TRUE
    /\ call = [op |-> "none", on |-> "none", effects |-> <<>>]
    /\ \E sr \in Rates, sec \in 0..MaxSeconds, extra \in 0..MaxExtra :
          fn = [op |-> "plan", sr |-> sr, data_len |-> sec * sr + extra,
                start_sample |-> 0, chunks |-> <<>>]

\* asr.py:176-186: one pass of the loop, up to the call of the ASR model on
\* the chunk; chunks are the (chunk, start_sec) handed to the model so far,
\* start_sec = start_sample / sr
PlanStep ==
    /\ fn.op = "plan"
    /\ fn.start_sample < fn.data_len
    /\ LET n_samples == ChunkLen(fn.data_len, fn.start_sample, fn.sr)
       IN  fn' = [fn EXCEPT
                    !.start_sample = @ + chunk_samples(fn.sr),
                    !.chunks = IF Skipped(n_samples, fn.sr)
                               THEN @
                               ELSE Append(@, [start_sample |-> fn.start_sample,
                                               n_samples |-> n_samples])]
    /\ UNCHANGED <<asr, translator, translator_lookup, rq, settings, running, call>>

SpecPlan == InitPlan /\ [][PlanStep]_vars

\* min(a, b)
Min(a, b) == IF a <= b THEN a ELSE b

\* ------------------------------------------------- float arithmetic
\* Times are Python floats.  A float is modelled as a whole number of ticks
\* (the smallest spacing of the format) whose significand has Precision bits,
\* and an operation returns the float nearest to the exact result, ties to
\* even, as IEEE 754 arithmetic does.
RECURSIVE Pow2(_)
Pow2(n) == IF n = 0 THEN 1 ELSE 2 * Pow2(n - 1)

\* The spacing of the floats around a / b, from u on.
RECURSIVE Ulp(_, _, _)
Ulp(a, b, u) == IF a < Pow2(Precision) * u * b THEN u ELSE Ulp(a, b, 2 * u)

\* a / b (a >= 0, b > 0) as a float
Round(a, b) ==
    LET d == b * Ulp(a, b, 1)
        q == a \div d
        r == a % d
    IN  (IF 2 * r < d \/ (2 * r = d /\ q % 2 = 0) THEN q ELSE q + 1)
            * Ulp(a, b, 1)

FAdd(x, y) == Round(x + y, 1)

FSub(x, y) == Round(x - y, 1)

FMul(x, y) == Round(x * y, 1)

FDiv(x, y) == Round(x, y)

\* ------------------------------------------------- texts
\* A string is the sequence of its characters.
RECURSIVE lstrip(_)
lstrip(t) == IF t # <<>> /\ Head(t) = " " THEN lstrip(Tail(t)) ELSE t

RECURSIVE rstrip(_)
rstrip(t) ==
    IF t # <<>> /\ t[Len(t)] = " " THEN rstrip(SubSeq(t, 1, Len(t) - 1)) ELSE t

\* str.strip()
strip(t) == rstrip(lstrip(t))

\* str.split(): the words of t, cur the word being read
RECURSIVE SplitFrom(_, _)
SplitFrom(t, cur) ==
    IF t = <<>> THEN (IF cur = <<>> THEN <<>> ELSE <<cur>>)
    ELSE IF Head(t) = " "
    THEN (IF cur = <<>> THEN <<>> ELSE <<cur>>) \o SplitFrom(Tail(t), <<>>)
    ELSE SplitFrom(Tail(t), Append(cur, Head(t)))

split(t) == SplitFrom(t, <<>>)

\* ' '.join(words)
RECURSIVE join(_)
join(words) ==
    IF words = <<>> THEN <<>>
    ELSE IF Len(words) = 1 THEN words[1]
    ELSE words[1] \o <<" ">> \o join(Tail(words))

\* re.split(r'(?<=[marks])\s+', t): t is cut at every run of blanks that
\* follows one of the marks, cur the piece being read
RECURSIVE ReSplitFrom(_, _, _)
ReSplitFrom(t, cur, marks) ==
    IF t = <<>> THEN <<cur>>
    ELSE IF Head(t) = " " /\ cur # <<>> /\ cur[Len(cur)] \in marks
    THEN <<cur>> \o ReSplitFrom(lstrip(t), <<>>, marks)
    ELSE ReSplitFrom(Tail(t), Append(cur, Head(t)), marks)

re_split(marks, t) == ReSplitFrom(t, <<>>, marks)

\* ------------------------------------------------- _align_to_segments
\* Mutant: only the word budget closes a segment.
ends_sentence_Never(word) == FALSE

\* asr.py:132   re.search(r"[.!?]$", word)
ends_sentence(word) == word # <<>> /\ word[Len(word)] \in {".", "!", "?"}

\* asr.py:105-107: the locals; seg_start is <<>> for None, <<t>> for t
NoWords == [segments |-> <<>>, current_words |-> <<>>, seg_start |-> <<>>]

\* asr.py:109-117
flush(st) ==
    IF st.current_words = <<>>
    THEN st
    ELSE [segments |->
            Append(st.segments,
                   [text |-> join([k \in 1..Len(st.current_words) |->
                                      st.current_words[k][1]]),
                    timestamp |->
                        <<st.seg_start[1],
                          st.current_words[Len(st.current_words)][3]>>]),
          current_words |-> <<>>,
          seg_start |-> <<>>]

\* asr.py:119-134: the loop body for one item
AlignItem(st, item, offset_sec, max_words) ==
    LET word    == strip(item.text)
        w_start == FAdd(item.start_time, offset_sec)
        w_end   == FAdd(item.end_time, offset_sec)
        st1     == [st EXCEPT
                      !.seg_start = IF @ = <<>> THEN <<w_start>> ELSE @,
                      !.current_words = Append(@, <<word, w_start, w_end>>)]
    IN  IF word = <<>> THEN st
        ELSE IF ends_sentence(word) \/ Len(st1.current_words) >= max_words
        THEN flush(st1)
        ELSE st1

\* asr.py:90-137
RECURSIVE AlignFrom(_, _, _, _, _)
AlignFrom(st, items, k, offset_sec, max_words) ==
    IF k > Len(items) THEN flush(st).segments
    ELSE AlignFrom(AlignItem(st, items[k], offset_sec, max_words),
                   items, k + 1, offset_sec, max_words)

align_to_segments(align_result, offset_sec, max_words) ==
    AlignFrom(NoWords, align_result, 1, offset_sec, max_words)

\* The texts of word items: blank, plain, ending a sentence (with blanks
\* around), with a dot that does not end the word.
ItemTexts ==
    { <<" ">>, <<"a">>, <<" ", "b", "!">>, <<"c", "?", " ">>, <<"d", ".">>,
      <<".", "e">> }

\* The k-th item of a chunk, one tick long, after the one before it.
Item(text, k) == [text |-> text, start_time |-> k - 1, end_time |-> k]

\* Items in time order with the texts of a list.
ItemsOf(texts) == [k \in 1..Len(texts) |-> Item(texts[k], k)]

TextLists(n) == [1..n -> ItemTexts]

\* n words with no punctuation
Unpunctuated(n) == [k \in 1..n |-> <<"a">>]

\* _align_to_segments called on a list of items, item by item
InitAssemble ==
    /\ settings = [translator_model |-> None, lookup_model |-> None]
    /\ asr = ASR_init
    /\ translator = Translator_init
    /\ translator_lookup = Translator_init
    /\ rq = [r \in Reqs |-> IdleReq]
    /\ running = TRUE
    /\ call = [op |-> "none", on |-> "none", effects |-> <<>>]
    /\ \E offset_sec \in {0, MAX_ALIGN_SEC} :
          \/ \E n \in 0..MaxItems, max_words \in 1..MaxBudget :
                \E texts \in TextLists(n) :
                   fn = [op |-> "assemble", align_result |-> ItemsOf(texts),
                         offset_sec |-> offset_sec, max_words |-> max_words,
                         k |-> 1, st |-> NoWords, returned |-> FALSE]
          \/ \E n \in 11..13 :
                fn = [op |-> "assemble", align_result |-> ItemsOf(Unpunctuated(n)),
                      offset_sec |-> offset_sec, max_words |-> 12,
                      k |-> 1, st |-> NoWords, returned |-> FALSE]

\* asr.py:119-134
AssembleItem ==
    /\ fn.op = "assemble"
    /\ fn.k <= Len(fn.align_result)
    /\ fn' = [fn EXCEPT
                !.st = AlignItem(@, fn.align_result[fn.k], fn.offset_sec,
                                 fn.max_words),
                !.k = @ + 1]
    /\ UNCHANGED <<asr, translator, translator_lookup, rq, settings, running, call>>

\* asr.py:136-137
AssembleReturn ==
    /\ fn.op = "assemble"
    /\ fn.k > Len(fn.align_result)
    /\ ~fn.returned
    /\ fn' = [fn EXCEPT !.st = flush(@), !.returned = TRUE]
    /\ UNCHANGED <<asr, translator, translator_lookup, rq, settings, running, call>>

NextAssemble == AssembleItem \/ AssembleReturn

SpecAssemble == InitAssemble /\ [][NextAssemble]_vars

\* ------------------------------------------------- split_long_segments
\* Mutant: only the first group of max_words words is kept.
ForceSplit_FirstGroup(ws, max_words) ==
    IF ws = <<>> THEN <<>>
    ELSE <<join(SubSeq(ws, 1, Min(max_words, Len(ws))))>>

\* subtitle.py:102-104: the words in groups of max_words
RECURSIVE ForceSplit(_, _)
ForceSplit(ws, max_words) ==
    IF ws = <<>> THEN <<>>
    ELSE IF Len(ws) <= max_words THEN <<join(ws)>>
    ELSE <<join(SubSeq(ws, 1, max_words))>>
            \o ForceSplit(SubSeq(ws, max_words + 1, Len(ws)), max_words)

\* Mutant: a piece between commas is kept whatever its length.
RECURSIVE CommaSplit_NoForce(_, _)
CommaSplit_NoForce(sub, max_words) ==
    IF sub = <<>> THEN <<>>
    ELSE <<sub[1]>> \o CommaSplit_NoForce(Tail(sub), max_words)

\* subtitle.py:97-104: the pieces between commas, the long ones cut by force
RECURSIVE CommaSplit(_, _)
CommaSplit(sub, max_words) ==
    IF sub = <<>> THEN <<>>
    ELSE (IF Len(split(sub[1])) <= max_words
          THEN <<sub[1]>>
          ELSE ForceSplit(split(sub[1]), max_words))
            \o CommaSplit(Tail(sub), max_words)

\* subtitle.py:91-104: the sentences, the long ones cut at commas
RECURSIVE Chunks(_, _)
Chunks(raw_chunks, max_words) ==
    IF raw_chunks = <<>> THEN <<>>
    ELSE (IF Len(split(raw_chunks[1])) <= max_words
          THEN <<raw_chunks[1]>>
          ELSE CommaSplit(re_split({","}, raw_chunks[1]), max_words))
            \o Chunks(Tail(raw_chunks), max_words)

\* sum(len(c.split()) for c in chunks)
RECURSIVE SumWords(_)
SumWords(chunks) ==
    IF chunks = <<>> THEN 0
    ELSE Len(split(chunks[1])) + SumWords(Tail(chunks))

\* subtitle.py:109-114: the pieces laid out from t on
RECURSIVE Allocate(_, _, _, _)
Allocate(chunks, t, duration, total_words) ==
    IF chunks = <<>> THEN <<>>
    ELSE LET n         == Len(split(chunks[1]))
             chunk_end == FAdd(t, FDiv(FMul(duration, n), total_words))
         IN  <<[text |-> chunks[1], timestamp |-> <<t, chunk_end>>]>>
                \o Allocate(Tail(chunks), chunk_end, duration, total_words)

\* Mutant: a segment of exactly max_words words is split as well.
WithinBudget_Strict(n, max_words) == n < max_words

\* subtitle.py:83   len(words) <= max_words
WithinBudget(n, max_words) == n <= max_words

\* subtitle.py:78-114: the loop body, what one segment adds to the result
SplitSegment(seg, max_words) ==
    LET text  == strip(seg.text)
        start == seg.timestamp[1]
        end   == seg.timestamp[2]
        words == split(text)
    IN  IF WithinBudget(Len(words), max_words)
        THEN <<seg>>
        ELSE LET raw_chunks  == re_split({".", "!", "?"}, text)
                 chunks      == Chunks(raw_chunks, max_words)
                 total_words == IF SumWords(chunks) = 0 THEN 1
                                ELSE SumWords(chunks)
                 duration    == FSub(end, start)
             IN  Allocate(chunks, start, duration, total_words)

\* subtitle.py:59-116
RECURSIVE split_long_segments(_, _)
split_long_segments(segments, max_words) ==
    IF segments = <<>> THEN <<>>
    ELSE SplitSegment(segments[1], max_words)
            \o split_long_segments(Tail(segments), max_words)

\* The words of the texts handed to the splitter: plain, ending a sentence,
\* before a comma.
SegWords == { <<"a">>, <<"b", ".">>, <<"c", ",">> }

\* A text: its words, one blank or two between them, blanks around or not.
RECURSIVE Spaced(_, _)
Spaced(words, gap) ==
    IF words = <<>> THEN <<>>
    ELSE IF Len(words) = 1 THEN words[1]
    ELSE words[1] \o gap \o Spaced(Tail(words), gap)

Texts(n) ==
    {Spaced(words, <<" ">>) : words \in [1..n -> SegWords]}
        \cup {<<" ">> \o Spaced(words, <<" ", " ">>) \o <<" ">> :
                  words \in [1..n -> SegWords]}

\* (start, end) of a segment, start <= end
Stamps == {<<0, 7>>, <<MAX_ALIGN_SEC, 2 * MAX_ALIGN_SEC>>}

\* The segment after the first one, when there is one: within two words or not.
NextSegs ==
    { [text |-> <<"a", " ", "a">>, timestamp |-> <<200, 210>>],
      [text |-> <<"b", ".", " ", "a", " ", "c", ",", " ", "a">>,
       timestamp |-> <<200, 210>>] }

\* split_long_segments called on a list of one or two segments
InitSplit ==
    /\ settings = [translator_model |-> None, lookup_model |-> None]
    /\ asr = ASR_init
    /\ translator = Translator_init
    /\ translator_lookup = Translator_init
    /\ rq = [r \in Reqs |-> IdleReq]
    /\ running = TRUE
    /\ call = [op |-> "none", on |-> "none", effects |-> <<>>]
    /\ \E n \in 0..MaxWords, max_words \in 1..MaxBudget, timestamp \in Stamps :
          \E text \in Texts(n), rest \in {<<>>} \cup {<<seg>> : seg \in NextSegs} :
             fn = [op |-> "split",
                   segments |-> <<[text |-> text, timestamp |-> timestamp]>> \o rest,
                   max_words |-> max_words,
                   calls |-> 0, result |-> <<>>, again |-> <<>>]

\* result = split_long_segments(segments, max_words)
Split ==
    /\ fn.op = "split"
    /\ fn.calls = 0
    /\ fn' = [fn EXCEPT !.calls = 1,
                         !.result = split_long_segments(fn.segments, fn.max_words)]
    /\ UNCHANGED <<asr, translator, translator_lookup, rq, settings, running, call>>

\* again = split_long_segments(result, max_words)
SplitAgain ==
    /\ fn.op = "split"
    /\ fn.calls = 1
    /\ fn' = [fn EXCEPT !.calls = 2,
                         !.again = split_long_segments(fn.result, fn.max_words)]
    /\ UNCHANGED <<asr, translator, translator_lookup, rq, settings, running, call>>

NextSplit == Split \/ SplitAgain

SpecSplit == InitSplit /\ [][NextSplit]_vars

\* ------------------------------------------------- asr.transcribe, then the split
\* asr.py:94 and subtitle.py:61: max_words of both calls (the defaults)
MAX_WORDS == 12

\* Lengths of the audio in whole seconds: nothing, one chunk, a full chunk,
\* a chunk and a tail, two full chunks.
DataSecs == {0, 50, MAX_ALIGN_SEC, MAX_ALIGN_SEC + 5, 2 * MAX_ALIGN_SEC}

\* Times of the word items of a chunk of dur seconds, relative to the chunk.
ItemTimes(dur) == {0, 1, dur}

\* The lists of at most two word items of a chunk of dur seconds: in time
\* order (start <= end <= the next start) and within the chunk.
AlignedItems(dur) ==
    LET W == {<<"a">>, <<"b", ".">>}
        T == ItemTimes(dur)
    IN  { <<[text |-> x, start_time |-> p[1], end_time |-> p[2]]>> :
            x \in W, p \in {p \in T \X T : p[1] <= p[2]} }
        \cup
        { <<[text |-> x, start_time |-> p[1], end_time |-> p[2]],
            [text |-> y, start_time |-> p[3], end_time |-> dur]>> :
            x \in W, y \in W,
            p \in {p \in T \X T \X T : p[1] <= p[2] /\ p[2] <= p[3]} }

\* 13 words in three sentences
LongText ==
    Spaced(<< <<"a">>, <<"a">>, <<"a">>, <<"a">>, <<"b", ".">>,
              <<"a">>, <<"a">>, <<"a">>, <<"b", ".">>,
              <<"a">>, <<"a">>, <<"a">>, <<"a">> >>, <<" ">>)

\* result.text when the aligner gave no items: blank, short, long
FlatTexts == { <<" ">>, <<"a", " ", "b", ".", " ">>, LongText }

\* What self.model.transcribe returns for a chunk (asr.py:186-199): no
\* result, a result with aligned items, a result with its text only.
AsrResults(dur) ==
    { [kind |-> "none", aligned_items |-> <<>>, text |-> <<>>] }
    \cup { [kind |-> "aligned", aligned_items |-> items, text |-> <<>>] :
             items \in AlignedItems(dur) }
    \cup { [kind |-> "flat", aligned_items |-> <<>>, text |-> text] :
             text \in FlatTexts }

\* Mutant: the fallback segment always spans a full window.
ChunkSegments_Unclamped(result, start_sample, sr, data_len) ==
    LET start_sec == FDiv(start_sample, sr)
    IN  IF result.kind = "none" THEN <<>>
        ELSE IF result.aligned_items # <<>>
        THEN align_to_segments(result.aligned_items, start_sec, MAX_WORDS)
        ELSE IF strip(result.text) # <<>>
        THEN LET end_sec == FDiv(start_sample + chunk_samples(sr), sr)
             IN  <<[text |-> strip(result.text), timestamp |-> <<start_sec, end_sec>>]>>
        ELSE <<>>

\* asr.py:192-214: the segments a chunk adds
ChunkSegments(result, start_sample, sr, data_len) ==
    LET start_sec == FDiv(start_sample, sr)
    IN  IF result.kind = "none" THEN <<>>
        ELSE IF result.aligned_items # <<>>
        THEN align_to_segments(result.aligned_items, start_sec, MAX_WORDS)
        ELSE IF strip(result.text) # <<>>
        THEN LET end_sec == FDiv(Min(start_sample + chunk_samples(sr), data_len), sr)
             IN  <<[text |-> strip(result.text), timestamp |-> <<start_sec, end_sec>>]>>
        ELSE <<>>

InitTimeline ==
    /\ settings = [translator_model |-> None, lookup_model |-> None]
    /\ asr = ASR_init
    /\ translator = Translator_init
    /\ translator_lookup = Translator_init
    /\ rq = [r \in Reqs |-> IdleReq]
    /\ running = TRUE
    /\ call = [op |-> "none", on |-> "none", effects |-> <<>>]
    /\ \E sr \in {1, 2}, sec \in DataSecs :
          fn = [op |-> "transcribe", sr |-> sr, data_len |-> sec * sr,
                start_sample |-> 0, segments |-> <<>>,
                returned |-> FALSE, result |-> <<>>]

\* asr.py:176-214: one pass of the chunk loop
AsrChunk(result) ==
    /\ fn.op = "transcribe"
    /\ fn.start_sample < fn.data_len
    /\ fn' = [fn EXCEPT
                !.start_sample = @ + chunk_samples(fn.sr),
                !.segments =
                    IF Skipped(ChunkLen(fn.data_len, fn.start_sample, fn.sr), fn.sr)
                    THEN @
                    ELSE @ \o ChunkSegments(result, fn.start_sample, fn.sr,
                                            fn.data_len)]
    /\ UNCHANGED <<asr, translator, translator_lookup, rq, settings, running, call>>

\* asr.py:216 and server.py:185: the segments are returned and split
SplitTrack ==
    /\ fn.op = "transcribe"
    /\ fn.start_sample >= fn.data_len
    /\ ~fn.returned
    /\ fn' = [fn EXCEPT !.returned = TRUE,
                         !.result = split_long_segments(fn.segments, MAX_WORDS)]
    /\ UNCHANGED <<asr, translator, translator_lookup, rq, settings, running, call>>

NextTimeline ==
    \/ \E result \in
            AsrResults(ChunkLen(fn.data_len, fn.start_sample, fn.sr) \div fn.sr) :
          AsrChunk(result)
    \/ SplitTrack

SpecTimeline == InitTimeline /\ [][NextTimeline]_vars

\* ================================================= properties
Statuses(q) == {q.events[k].status : k \in DOMAIN q.events}

Terminating == {"done", "error"}

LastEvent(q) == q.events[Len(q.events)]

\* The request of slot r has an event stream (it was not rejected with an HTTP
\* error before the stream was made) and the stream is over.
StreamOver(q) == q.pc = "end" /\ q.http = 200

\* ------------------------------------------------- C1
\* C1: when the event stream of a /transcribe request is over, by a done
\* event, by an error event (load failure or inference failure) or by the
\* client closing it at any point after the ASR model was loaded (the
\* extracting_audio event is emitted only with asr.model set), asr.model is None.
C1_AsrUnloadedOnEveryExit ==
    \A r \in Reqs :
        LET q == rq[r] IN
        ( /\ q.kind = "transcribe"
          /\ StreamOver(q)
          /\ \/ Statuses(q) \cap Terminating # {}
             \/ q.closed /\ "extracting_audio" \in Statuses(q) )
        => asr.model = None

\* ------------------------------------------------- C2
\* The translator handle goes from Loaded to Unloaded in this step.
TranslatorGoesUnloaded == translator.model # None /\ translator'.model = None

\* A set_models call that changes the batch translator's model_id.
SwitchesTranslator ==
    \E tr \in TRANSLATOR_MODELS, lk \in Ids \cup {None} :
        tr # translator.model_id /\ set_models(tr, lk)

\* A /translate request that had the handle Loaded: it got to the segment loop.
Translated(q) == q.kind = "translate" /\ "translating" \in Statuses(q)

Stage(kind, status) ==
    CASE status = "loading_model"    -> 1
      [] status = "extracting_audio" -> 2
      [] status = "translating"      -> 2
      [] status = "saving_srt"       -> 3
      [] status \in Terminating      -> 4

StreamStatuses(kind) ==
    IF kind = "transcribe"
    THEN {"loading_model", "extracting_audio", "saving_srt", "done", "error"}
    ELSE {"loading_model", "translating", "done", "error"}

\* C3: in every transcription and translation stream a done or error event is
\* the last event (nothing follows it, so there is at most one), and the
\* events before it come in the stage order: loading_model, extracting_audio,
\* saving_srt, each at most once (transcription); loading_model at most once
\* and first, then translating events (translation).
C3_TerminatingEventIsLast ==
    \A r \in Reqs :
        LET q == rq[r]
            e == q.events
        IN  /\ \A k \in DOMAIN e :
                /\ e[k].status \in StreamStatuses(q.kind)
                /\ e[k].status \in Terminating => k = Len(e)
                /\ e[k].status = "loading_model" => k = 1
            /\ \A k \in DOMAIN e : \A m \in DOMAIN e :
                k < m =>
                    IF e[k].status = "translating"
                    THEN Stage(q.kind, e[k].status) <= Stage(q.kind, e[m].status)
                    ELSE Stage(q.kind, e[k].status) < Stage(q.kind, e[m].status)
            /\ q.pc = "end" /\ q.http # 200 => e = <<>>

C3_Witness ==
    \E r \in Reqs :
        /\ rq[r].kind = "translate" /\ StreamOver(rq[r])
        /\ Len(rq[r].events) = 4
        /\ rq[r].events[1].status = "loading_model"
        /\ rq[r].events[3].status = "translating"
        /\ rq[r].events[4].status = "error"

\* ------------------------------------------------- C4
\* C4, for the failures that happen once the stream exists (load, inference,
\* writing the result): a stream that is over and was not closed by the
\* client holds exactly one done or error event, its last one.
C4_OneTerminatingEvent ==
    \A r \in Reqs :
        LET q == rq[r] IN
        (StreamOver(q) /\ ~q.closed)
        => /\ q.events # <<>>
           /\ LastEvent(q).status \in Terminating
           /\ Cardinality({k \in DOMAIN q.events :
                             q.events[k].status \in Terminating}) = 1

\* ------------------------------------------------- C5
\* C5: a request whose stream holds an error event has not written its output
\* file, and a request that wrote it has processed all its chunks or segments
\* without a failure (and, for a translation, translated every segment).
C5_NoFileAfterError ==
    \A r \in Reqs :
        LET q == rq[r] IN
        /\ "error" \in Statuses(q) => ~q.saved
        /\ q.saved => /\ q.i = q.n /\ q.failedAt = -1
                      /\ q.kind = "translate" => q.got = 0 .. (q.n - 1)
                      /\ LastEvent(q).status = "done"

C5_Witness ==
    \E r \in Reqs :
        /\ StreamOver(rq[r]) /\ LastEvent(rq[r]).status = "error"
        /\ rq[r].got # {} /\ ~rq[r].saved

\* ------------------------------------------------- C6
\* C6: when the collaborator call for chunk or segment k failed, no call was
\* or is issued for a later one, the request stops at k with an error event,
\* and nothing of what was produced before k is returned: no saving_srt or
\* done event and no output file.
C6_FailFast ==
    \A r \in Reqs :
        LET q == rq[r] IN
        q.failedAt >= 0
        => /\ \A c \in q.calls : c <= q.failedAt
           /\ q.i = q.failedAt
           /\ LastEvent(q).status = "error"
           /\ Statuses(q) \cap {"saving_srt", "done"} = {}
           /\ ~q.saved

C6_Witness ==
    \E r \in Reqs :
        /\ rq[r].kind = "transcribe" /\ StreamOver(rq[r])
        /\ rq[r].failedAt = 0 /\ rq[r].n = 2 /\ rq[r].calls = {0}

\* ------------------------------------------------- C7
\* Between the is-loaded check (server.py:165) and the unload of the finally
\* block (server.py:183).
InAsrSection(q) ==
    q.pc \in {"t_y_loading", "t_load", "t_y_extracting", "t_extract", "t_read",
              "t_chunk", "t_y_error", "t_unload", "t_unload_exit"}

\* C7: no two requests are at the same time between their is-loaded check and
\* their final unload on the ASR handle (so no two of them both saw it
\* Unloaded and both load it).
C7_RequestsSerialized ==
    \A r1 \in Reqs : \A r2 \in Reqs \ {r1} :
        ~(InAsrSection(rq[r1]) /\ InAsrSection(rq[r2]))

\* ------------------------------------------------- C8
HandleNext(on) == IF on = "translator" THEN translator' ELSE translator_lookup'

\* C8: for every call in any sequence of load, unload, _ensure_loaded and
\* set_model_id calls on a Translator: unload leaves the handle Unloaded and,
\* on an Unloaded handle, changes nothing and releases nothing; _ensure_loaded
\* on an Unloaded handle (as after unload) performs one load and, when that
\* load succeeds, leaves the handle Loaded, and on a Loaded handle performs no
\* load and changes nothing; set_model_id with another id on a Loaded handle
\* performs exactly one unload and no load and leaves the handle Unloaded with
\* the new id; set_model_id with the current id performs no unload and
\* changes nothing.
C8_HandleLifecycle ==
    [][ \A on \in Handles :
          LET h  == Handle(on)
              h2 == HandleNext(on)
          IN
          /\ CallUnload(on) =>
                /\ h2.model = None
                /\ h.model = None => (h2 = h /\ call'.effects = <<>>)
          /\ \A outcome \in LoadOutcomes :
                CallEnsureLoaded(on, outcome) =>
                    IF h.model = None
                    THEN /\ call'.effects = <<"load">>
                         /\ outcome = "ok" => h2.model = h.model_id
                         /\ outcome # "ok" => h2.model = None
                    ELSE h2 = h /\ call'.effects = <<>>
          /\ \A model_id \in TRANSLATOR_MODELS :
                CallSetModelId(on, model_id) =>
                    IF model_id # h.model_id
                    THEN /\ call'.effects =
                              IF h.model # None THEN <<"unload">> ELSE <<>>
                         /\ h2.model = None
                         /\ h2.model_id = model_id
                    ELSE h2 = h /\ call'.effects = <<>> ]_vars

C8_Witness ==
    /\ call.op = "set_model_id"
    /\ call.effects = <<"unload">>
    /\ Handle(call.on).model = None
    /\ Handle(call.on).model_id # MODEL_ID

\* ------------------------------------------------- C9
\* C9: a request whose load() failed leaves its handle Unloaded, with the
\* model and (translator) the tokenizer both unset, ends with an error event
\* and has issued no inference call.
C9_FailedLoadLeavesUnloaded ==
    \A r \in Reqs :
        LET q == rq[r] IN
        (q.loadFailed /\ q.pc \in {"t_y_error_load", "l_y_error_load"})
        => /\ LastEvent(q).status = "error"
           /\ q.calls = {}
           /\ q.kind = "transcribe" => asr.model = None
           /\ q.kind = "translate" =>
                 (translator.model = None /\ translator.tokenizer = None)

InCall(q) == q.pc \in {"l_ens_tok", "l_ens_model", "l_infer"}

\* The (source, translated) pair of the k-th segment of the request.
Pair(q, k) == <<q.segments[k].text, Translation(q.segments[k].text)>>

\* C11: the context passed with the i-th translator call of a request (i from
\* 0) is the (source, translated) pairs of the min(5, i) segments just before
\* segment i, in segment order (none for i = 0), so the oldest pair is the
\* first to leave the window; the history holds the pairs of the segments
\* whose call succeeded, each appended after its call succeeded.
C11_ContextWindow ==
    \A r \in Reqs :
        LET q == rq[r] IN
        q.kind = "translate" =>
            /\ Len(q.context_history) = q.i
            /\ Len(q.context_history) = Cardinality(q.got)
            /\ \A k \in 1..q.i : q.context_history[k] = Pair(q, k)
            /\ InCall(q) =>
                  /\ Len(q.ctx) = Min(5, q.i)
                  /\ \A k \in 1..Len(q.ctx) :
                        q.ctx[k] = Pair(q, q.i - Len(q.ctx) + k)

C11_Witness ==
    \E r \in Reqs :
        /\ rq[r].pc = "l_infer" /\ rq[r].i = 6
        /\ Len(rq[r].ctx) = 5
        /\ rq[r].ctx[1] = Pair(rq[r], 2)
        /\ rq[r].ctx[5] = Pair(rq[r], 6)

Scanned == Min(fn.start_sample, fn.data_len)

\* The sample after the last chunk handed to the model.
CoveredEnd ==
    IF fn.chunks = <<>> THEN 0
    ELSE fn.chunks[Len(fn.chunks)].start_sample + fn.chunks[Len(fn.chunks)].n_samples

\* C12: for every buffer length and sample rate, with the window of the code
\* (MAX_ALIGN_SEC = 90 s): the chunks handed to the ASR model start at strictly
\* increasing times, the first at sample 0 and each where the one before it
\* ends (contiguous, not overlapping); the samples gone over and not in a
\* chunk are one range, after the last chunk, shorter than 0.5 s; a 95 s
\* buffer at rate 16000 gives the chunks [0, 90) and [90, 95).
C12_ChunkPlan ==
    fn.op = "plan" =>
        LET c == fn.chunks IN
        /\ \A k \in 1..Len(c) :
              /\ c[k].n_samples > 0
              /\ c[k].start_sample = IF k = 1 THEN 0
                                     ELSE c[k-1].start_sample + c[k-1].n_samples
              /\ k > 1 => c[k-1].start_sample < c[k].start_sample
        /\ CoveredEnd <= Scanned
        /\ 2 * (Scanned - CoveredEnd) < fn.sr
        /\ (fn.sr = 16000 /\ fn.data_len = 95 * 16000
                /\ fn.start_sample >= fn.data_len)
             => c = << [start_sample |-> 0, n_samples |-> 90 * 16000],
                       [start_sample |-> 90 * 16000, n_samples |-> 5 * 16000] >>

C12_Witness ==
    /\ fn.op = "plan"
    /\ fn.sr = 16000 /\ fn.data_len = 95 * 16000
    /\ fn.start_sample >= fn.data_len
    /\ Len(fn.chunks) = 2

\* ------------------------------------------------- C13
\* The words of a list of segments, in order.
RECURSIVE WordsOf(_)
WordsOf(segments) ==
    IF segments = <<>> THEN <<>>
    ELSE split(segments[1].text) \o WordsOf(Tail(segments))

\* The number of words of a segment.
WordCount(seg) == Len(split(seg.text))

LastWord(seg) == split(seg.text)[WordCount(seg)]

Terminal(word) == word[Len(word)] = "." \/ word[Len(word)] = "!"
                    \/ word[Len(word)] = "?"

NonBlank(text) == \E c \in DOMAIN text : text[c] # " "

\* The trimmed texts of the first n items, the blank ones left out.
RECURSIVE Consumed(_, _)
Consumed(items, n) ==
    IF n = 0 THEN <<>>
    ELSE Consumed(items, n - 1) \o
            (IF NonBlank(items[n].text) THEN <<strip(items[n].text)>> ELSE <<>>)

Buffered(st) == [k \in 1..Len(st.current_words) |-> st.current_words[k][1]]

\* C13: for every list of word items and max_words >= 1, appending a word
\* closes the open segment exactly when the word's trimmed text ends with
\* '.', '!' or '?' or the buffer reaches max_words words, and an item with a
\* blank text changes nothing; so the segments and the buffer hold the
\* non-blank words consumed, in order and trimmed, every segment has 1 to
\* max_words words, every segment but the one of the final flush ends with
\* terminal punctuation or has max_words words, and 13 unpunctuated words
\* with max_words = 12 give a segment of 12 words and one of 1 word.
C13_SegmentAssembler ==
    [][ fn.op = "assemble" =>
          LET st    == fn.st
              st2   == fn'.st
              segs  == fn'.st.segments
              item  == fn.align_result[fn.k]
              word  == strip(item.text)
              grown == Append(Buffered(st), word)
          IN
          /\ AssembleItem =>
                IF ~NonBlank(item.text) THEN st2 = st
                ELSE IF Terminal(word) \/ Len(grown) = fn.max_words
                THEN /\ Len(segs) = Len(st.segments) + 1
                     /\ split(segs[Len(segs)].text) = grown
                     /\ st2.current_words = <<>>
                ELSE /\ segs = st.segments
                     /\ Buffered(st2) = grown
          /\ WordsOf(segs) \o Buffered(st2) = Consumed(fn.align_result, fn'.k - 1)
          /\ \A k \in 1..Len(segs) :
                /\ WordCount(segs[k]) >= 1
                /\ WordCount(segs[k]) <= fn.max_words
                /\ (k < Len(segs) \/ ~fn'.returned) =>
                      \/ Terminal(LastWord(segs[k]))
                      \/ WordCount(segs[k]) = fn.max_words
          /\ fn'.returned => st2.current_words = <<>>
          /\ ( /\ fn'.returned /\ fn.max_words = 12
               /\ Len(fn.align_result) = 13
               /\ \A k \in 1..13 : ~Terminal(strip(fn.align_result[k].text)) )
             => /\ Len(segs) = 2
                /\ WordCount(segs[1]) = 12
                /\ WordCount(segs[2]) = 1 ]_vars

C13_Witness ==
    /\ fn.op = "assemble" /\ fn.returned
    /\ fn.max_words = 12 /\ Len(fn.align_result) = 13
    /\ Len(fn.st.segments) = 2
    /\ WordCount(fn.st.segments[1]) = 12
    /\ fn.st.segments[2].timestamp[1] = FAdd(12, fn.offset_sec)

\* ------------------------------------------------- C14
\* C14: a list of segments of at most max_words words each is returned as
\* it is (same texts, same timestamps, same order), and splitting the result
\* of a split again returns it as it is.
C14_SplitterIdempotent ==
    fn.op = "split" =>
        /\ ( /\ fn.calls >= 1
             /\ \A k \in 1..Len(fn.segments) :
                   WordCount(fn.segments[k]) <= fn.max_words )
           => fn.result = fn.segments
        /\ fn.calls = 2 => fn.again = fn.result

C14_Witness ==
    /\ fn.op = "split" /\ fn.calls = 2
    /\ Len(fn.segments) = 2
    /\ Len(fn.result) > 3
    /\ fn.again = fn.result

\* ------------------------------------------------- C15
\* The sum of the durations of the segments of a list.
RECURSIVE SumDurations(_)
SumDurations(segments) ==
    IF segments = <<>> THEN 0
    ELSE (segments[1].timestamp[2] - segments[1].timestamp[1])
            + SumDurations(Tail(segments))

\* C15: when a segment [start, end] is split, the first piece starts at
\* start, every later piece starts where the piece before it ends, the last
\* piece ends at end, the duration of a piece is (end - start) * its words /
\* all the words, and the durations add up to end - start.
C15_TimestampLaw ==
    ( /\ fn.op = "split" /\ fn.calls >= 1
      /\ Len(fn.segments) = 1
      /\ WordCount(fn.segments[1]) > fn.max_words )
    => LET start  == fn.segments[1].timestamp[1]
           end    == fn.segments[1].timestamp[2]
           total  == WordCount(fn.segments[1])
           pieces == fn.result
       IN  /\ pieces[1].timestamp[1] = start
           /\ \A k \in 2..Len(pieces) :
                 pieces[k].timestamp[1] = pieces[k-1].timestamp[2]
           /\ pieces[Len(pieces)].timestamp[2] = end
           /\ \A k \in 1..Len(pieces) :
                 (pieces[k].timestamp[2] - pieces[k].timestamp[1]) * total
                    = (end - start) * WordCount(pieces[k])
           /\ SumDurations(pieces) = end - start

\* ------------------------------------------------- C19
\* A list of words cut after every word that ends with one of the marks.
RECURSIVE CutAfter(_, _, _)
CutAfter(ws, marks, cur) ==
    IF ws = <<>> THEN (IF cur = <<>> THEN <<>> ELSE <<cur>>)
    ELSE IF ws[1][Len(ws[1])] \in marks
    THEN <<Append(cur, ws[1])>> \o CutAfter(Tail(ws), marks, <<>>)
    ELSE CutAfter(Tail(ws), marks, Append(cur, ws[1]))

\* A list of words in groups of n words, the last one of what is left.
RECURSIVE Groups(_, _)
Groups(ws, n) ==
    IF Len(ws) <= n THEN <<ws>>
    ELSE <<SubSeq(ws, 1, n)>> \o Groups(SubSeq(ws, n + 1, Len(ws)), n)

RECURSIVE ByComma(_, _)
ByComma(clauses, n) ==
    IF clauses = <<>> THEN <<>>
    ELSE (IF Len(clauses[1]) <= n THEN <<clauses[1]>> ELSE Groups(clauses[1], n))
            \o ByComma(Tail(clauses), n)

RECURSIVE BySentence(_, _)
BySentence(sentences, n) ==
    IF sentences = <<>> THEN <<>>
    ELSE (IF Len(sentences[1]) <= n THEN <<sentences[1]>>
          ELSE ByComma(CutAfter(sentences[1], {","}, <<>>), n))
            \o BySentence(Tail(sentences), n)

\* The pieces, as lists of words, the segments of a list are to be cut into.
RECURSIVE Cascade(_, _)
Cascade(segments, n) ==
    IF segments = <<>> THEN <<>>
    ELSE (IF WordCount(segments[1]) <= n THEN <<split(segments[1].text)>>
          ELSE BySentence(CutAfter(split(segments[1].text),
                                   {".", "!", "?"}, <<>>), n))
            \o Cascade(Tail(segments), n)

\* C19: for every list of segments and max_words >= 1, every segment of the
\* result has at most max_words words; a segment over the budget is cut after
\* every word that ends a sentence (. ! ?) and is followed by blanks, a
\* sentence still over the budget after every comma followed by blanks, and
\* a piece still over the budget into groups of max_words words, the last
\* group of what is left.
C19_SplitterBudget ==
    (fn.op = "split" /\ fn.calls >= 1) =>
        /\ \A k \in 1..Len(fn.result) : WordCount(fn.result[k]) <= fn.max_words
        /\ [k \in 1..Len(fn.result) |-> split(fn.result[k].text)]
              = Cascade(fn.segments, fn.max_words)

C19_Witness ==
    /\ fn.op = "split" /\ fn.calls >= 1
    /\ fn.max_words = 2
    /\ Len(fn.segments) = 1
    /\ split(fn.segments[1].text) = << <<"b", ".">>, <<"c", ",">>, <<"a">>, <<"a">> >>
    /\ Len(fn.result) = 3

\* ------------------------------------------------- C16
\* asr.transcribe of the request has returned or raised.
AfterAsrTranscribe(q) ==
    /\ q.kind = "transcribe"
    /\ q.pc \in {"t_y_error", "t_unload", "t_unload_exit", "t_y_saving",
                 "t_save", "t_y_done", "end"}

\* C16: once asr.transcribe has returned or raised (the demuxer run failed,
\* reading the extracted file failed, a chunk failed), the temporary audio
\* file extract_audio created for the request is gone.
C16_TempFileReleased ==
    \A r \in Reqs : AfterAsrTranscribe(rq[r]) => ~rq[r].tmp

\* ------------------------------------------------- C17
\* The inputs a request cannot work on: a path that does not exist, a
\* subtitle file that cannot be read as one.
Unusable == {"missing", "malformed"}

\* C17: a /transcribe request with a missing video path and a /translate
\* request with a missing or malformed subtitle file are answered with an
\* HTTP error and are over at once: the step that rejects them leaves the
\* three model handles as they are, and the request loads no model, calls no
\* model and produces no progress event.
C17_RejectedBeforeModelWork ==
    [][ \A r \in Reqs :
          rq'[r].input \in Unusable =>
            /\ rq'[r].pc = "end"
            /\ rq'[r].http \in {404, 500}
            /\ rq'[r].events = <<>>
            /\ rq'[r].calls = {} /\ rq'[r].log = <<>>
            /\ ~rq'[r].loaded /\ ~rq'[r].loadFailed /\ rq'[r].reloads = 0
            /\ rq'[r] # rq[r] =>
                  /\ asr' = asr
                  /\ translator' = translator
                  /\ translator_lookup' = translator_lookup ]_vars

C17_Witness ==
    \E r \in Reqs :
        /\ rq[r].kind = "translate" /\ rq[r].input = "malformed"
        /\ rq[r].http = 500 /\ rq[r].events = <<>>
        /\ translator_lookup.model # None
        /\ translator.tokenizer # None

\* ------------------------------------------------- C18
\* C18: with the word items of every chunk in time order, start <= end, within
\* the chunk, the segments of a transcription (the segments of the chunks in
\* chunk order, then split_long_segments) have non-decreasing start times,
\* start <= end, and none starts before the one before it ends.
C18_TimelineOrdered ==
    (fn.op = "transcribe" /\ fn.returned) =>
        /\ \A k \in 1..Len(fn.result) :
              fn.result[k].timestamp[1] <= fn.result[k].timestamp[2]
        /\ \A k \in 2..Len(fn.result) :
              /\ fn.result[k-1].timestamp[1] <= fn.result[k].timestamp[1]
              /\ fn.result[k-1].timestamp[2] <= fn.result[k].timestamp[1]

\* ------------------------------------------------- C21
IsProgress(e) == e.status = "translating"

\* The translating events of a stream, in the order of their emission.
ProgressEvents(q) == SelectSeq(q.events, IsProgress)

\* C21: in a translation stream, the j-th translating event (j from 0)
\* carries current = j and total = the number of input segments; when the
\* event with current = k is in the stream, k segments were translated
\* (their calls returned and their translations were appended); a done
\* event comes right after the translating event with current = total (for
\* an empty track, right after the one with current = 0) and carries total.
C21_TranslationProgress ==
    \A r \in Reqs :
        LET q == rq[r]
            p == ProgressEvents(q)
            e == q.events
        IN  q.kind = "translate" =>
            /\ \A j \in 1..Len(p) :
                  /\ p[j].n = j - 1
                  /\ p[j].total = Len(q.segments)
                  /\ p[j].n <= Len(q.translated)
                  /\ p[j].n <= Cardinality(q.got)
            /\ \A k \in DOMAIN e :
                  e[k].status = "done" =>
                      /\ k >= 2
                      /\ e[k-1] = Progress(Len(q.segments), Len(q.segments))
                      /\ Len(p) = Len(q.segments) + 1
                      /\ e[k].n = Len(q.segments)

C21_Witness ==
    \E r \in Reqs :
        /\ rq[r].kind = "translate"
        /\ Len(rq[r].events) = 6
        /\ LastEvent(rq[r]).status = "done"
        /\ Len(rq[r].segments) = 3
        /\ Len(ProgressEvents(rq[r])) = 4
        /\ rq[r].events[1].status = "loading_model"

\* ------------------------------------------------- C22
\* The results self.model.transcribe may return for the chunk the loop is at.
ResultsHere ==
    AsrResults(ChunkLen(fn.data_len, fn.start_sample, fn.sr) \div fn.sr)

\* C22: in a pass of the chunk loop over a chunk that is handed to the model,
\* a result with no word items adds exactly one segment when its trimmed text
\* is not empty and none otherwise; the segment has the trimmed text, starts
\* at the chunk's start time and ends at min(chunk start + 90 s, duration of
\* the buffer), so not after the end of the buffer; an empty result list adds
\* no segment; in both cases the loop goes on with the next chunk.
C22_FlatTextFallback ==
    [][ (fn.op = "transcribe" /\ fn.start_sample < fn.data_len
            /\ ~Skipped(ChunkLen(fn.data_len, fn.start_sample, fn.sr), fn.sr)) =>
          \A result \in ResultsHere :
            (AsrChunk(result) /\ result.aligned_items = <<>>) =>
              LET start_sec == FDiv(fn.start_sample, fn.sr)
                  duration  == FDiv(fn.data_len, fn.sr)
                  end_sec   == Min(FAdd(start_sec, MAX_ALIGN_SEC), duration)
              IN  /\ fn'.start_sample = fn.start_sample + chunk_samples(fn.sr)
                  /\ fn'.segments =
                        IF result.kind = "flat" /\ NonBlank(result.text)
                        THEN Append(fn.segments,
                                    [text |-> strip(result.text),
                                     timestamp |-> <<start_sec, end_sec>>])
                        ELSE fn.segments
                  /\ end_sec <= duration ]_vars

C22_Witness ==
    /\ fn.op = "transcribe"
    /\ fn.data_len = (MAX_ALIGN_SEC + 5) * fn.sr
    /\ fn.start_sample >= fn.data_len
    /\ Len(fn.segments) = 1
    /\ fn.segments[1].text = <<"a", " ", "b", ".">>
    /\ fn.segments[1].timestamp = <<MAX_ALIGN_SEC, MAX_ALIGN_SEC + 5>>

\* ------------------------------------------------- C23
\* The next step of the request is a call of self.model.transcribe
\* (asr.py:186): it is in the chunk loop, at a chunk that is not skipped.
AboutToInfer(q) ==
    /\ q.kind = "transcribe"
    /\ q.pc = "t_chunk"
    /\ q.i < q.n
    /\ ~(q.sliver /\ q.i = q.n - 1)

\* C23: with two /transcribe requests in flight, asr.model is not None when
\* a request is about to call self.model.transcribe: the unload at the end of
\* the other request does not come between the request's is-loaded check and
\* the last of its inference calls.
C23_NoInferenceOnUnloaded ==
    \A r \in Reqs : AboutToInfer(rq[r]) => asr.model # None

\* ------------------------------------------------- C24
\* C24: the segments of one /translate request are all translated by the
\* same model (a POST /models that changes the batch translator's model_id
\* between two segment calls does not make the later segments be translated
\* by another, newly loaded model), and no translate call of the request
\* loads a model.
C24_OneModelPerRequest ==
    \A r \in Reqs :
        rq[r].kind = "translate" =>
            /\ Cardinality(rq[r].by) <= 1
            /\ rq[r].reloads = 0

\* ------------------------------------------------- C25
\* C25: for every list of segments (and max_words >= 1), the words of the
\* texts of the result, read in the order of the result, are the words of the
\* texts of the input read in input order: none is lost, doubled, moved or
\* cut, and a punctuation mark stays at the end of the word it was written
\* after.
C25_WordsPreserved ==
    fn.op = "split" =>
        /\ fn.calls >= 1 => WordsOf(fn.result) = WordsOf(fn.segments)
        /\ fn.calls = 2 => WordsOf(fn.again) = WordsOf(fn.segments)

C25_Witness ==
    /\ fn.op = "split" /\ fn.calls >= 1
    /\ fn.max_words = 1
    /\ Len(fn.segments) = 2
    /\ Len(fn.result) = 8
    /\ WordsOf(fn.result) =
          << <<"c", ",">>, <<"a">>, <<"b", ".">>, <<"a">>,
             <<"b", ".">>, <<"a">>, <<"c", ",">>, <<"a">> >>
    /\ fn.segments[1].text[1] = " "

====
